---- MODULE Spec2Model ----
(***************************************************************************)
(* Model of ShardHandler (src/controller.py): a text corpus split into     *)
(* shard files data/{key}.txt with replica files data/{key}-{level}.txt,   *)
(* indexed by mapping.json.                                                *)
(*                                                                         *)
(* A file data/{key}.txt is the name <<key, 0>>; data/{key}-{level}.txt is *)
(* the name <<key, level>>.  The mapping (a Python dict, which keeps the   *)
(* order in which its keys were inserted, also through json.dump/load) is  *)
(* a sequence of records [key, start, end].  File contents and the corpus  *)
(* are sequences of characters.                                            *)
(***************************************************************************)
EXTENDS Integers, Sequences, FiniteSets

VARIABLES
    mapping,             \* self.mapping, the in-memory dict
    mapfile,             \* mapping.json (<<>> when absent or holding {})
    files,               \* the files of data/: name -> content
    dataDir,             \* whether the directory data/ exists
    last_char_position,  \* self.last_char_position
    rep_count,           \* self.rep_count
    last,                \* the last call: its name, arguments and outcome
    deleted              \* whether a primary was ever deleted out-of-band

vars == <<mapping, mapfile, files, dataDir, last_char_position, rep_count,
          last, deleted>>

\* ---------------------------------------------------------------- bounds
MaxLen == 3        \* longest corpus given to build_shards
MaxShards == 2     \* no build_shards or add_shard beyond this many shards
MaxLevel == 2      \* add_replication is not called beyond this level
MaxFaults == 3     \* files of data/ lost or corrupted at one time
MaxSplitLen == 11  \* longest corpus split when build_shards is studied alone
MaxSplitCount == 5 \* largest count given to build_shards studied alone

\* The corpus of n characters.  Its characters differ from one another, so
\* that a character lost, repeated or out of place shows in a comparison.
Corpus(n) == [i \in 1..n |-> i]
Corpora == {Corpus(n) : n \in 0..MaxLen}
Counts == (0 - 1)..MaxShards

\* ------------------------------------------------------- files and mapping
Primary(key) == <<key, 0>>
Replica(key, level) == <<key, level>>

\* os.path.exists(f'data/{...}.txt')
Exists(fs, name) == name \in DOMAIN fs

\* open(name, 'w').write(d)
FileWrite(fs, name, d) ==
    [n \in (DOMAIN fs) \cup {name} |-> IF n = name THEN d ELSE fs[n]]

\* os.remove(name)
FileRemove(fs, name) == [n \in (DOMAIN fs) \ {name} |-> fs[n]]

\* [int(z) for z in list(self.mapping.keys())]
KeysOf(m) == {m[i].key : i \in 1..Len(m)}

Min(S) == CHOOSE x \in S : \A y \in S : x <= y
Max(S) == CHOOSE x \in S : \A y \in S : y <= x

\* keys.sort()
RECURSIVE SortSet(_)
SortSet(S) ==
    IF S = {} THEN <<>> ELSE <<Min(S)>> \o SortSet(S \ {Min(S)})

SortedKeys(m) == SortSet(KeysOf(m))

\* self.mapping[f'{key}']
Entry(m, key) == m[CHOOSE i \in 1..Len(m) : m[i].key = key]

\* self.mapping.update({str(num): {...}}): an existing key keeps its place in
\* the dict, a new key goes last
MapUpdate(m, e) ==
    IF e.key \in KeysOf(m)
    THEN [i \in 1..Len(m) |-> IF m[i].key = e.key THEN e ELSE m[i]]
    ELSE Append(m, e)

\* ------------------------------------------------------------ _write_shard
\* h is [files, mapping, lcp]: data/, self.mapping, self.last_char_position
_write_shard(h, num, d) ==
    LET lcp == IF num = 0 THEN 0 ELSE h.lcp
        e == [key |-> num,
              start |-> IF lcp = 0 THEN lcp ELSE lcp + 1,
              end |-> lcp + Len(d)]
    IN [files |-> FileWrite(h.files, Primary(num), d),
        mapping |-> MapUpdate(h.mapping, e),
        lcp |-> lcp + Len(d)]

\* for num, d in enumerate(spliced_data): self._write_shard(num, d)
RECURSIVE write_shards(_, _, _)
write_shards(h, pieces, num) ==
    IF num >= Len(pieces) THEN h
    ELSE write_shards(_write_shard(h, num, pieces[num + 1]), pieces, num + 1)

\* --------------------------------------------------- _generate_sharded_data
\* divmod(a, b) for b # 0, rounding the quotient down as Python does
PyDiv(a, b) == IF b > 0 THEN a \div b ELSE 0 - ((a + (0 - b) - 1) \div (0 - b))
PyMod(a, b) == a - b * PyDiv(a, b)

\* data[i:j] for 0 <= i, 0 <= j
Slice(data, i, j) ==
    LET n == Len(data)
        lo == IF i > n THEN n ELSE i
        hi == IF j > n THEN n ELSE j
    IN IF hi <= lo THEN <<>> ELSE SubSeq(data, lo + 1, hi)

\* data[-rem:] for rem > 0
Tail_(data, rem) ==
    IF rem >= Len(data) THEN data ELSE SubSeq(data, Len(data) - rem + 1, Len(data))

\* _generate_sharded_data without "result[-1] += data[-rem:]"
generate_without_remainder(count, data) ==
    LET splicenum == PyDiv(Len(data), count)
        n == IF count > 0 THEN count ELSE 0
    IN [z \in 1..n |-> Slice(data, splicenum * (z - 1), splicenum * z)]

\* _generate_sharded_data with the odd characters dealt one each to the first
\* shards instead of appended to the last
generate_spread_remainder(count, data) ==
    LET splicenum == PyDiv(Len(data), count)
        rem == PyMod(Len(data), count)
        n == IF count > 0 THEN count ELSE 0
        lo(z) == splicenum * (z - 1) + (IF z - 1 < rem THEN z - 1 ELSE rem)
    IN [z \in 1..n |-> Slice(data, lo(z), lo(z + 1))]

\* count # 0 (count = 0 raises ZeroDivisionError in divmod)
_generate_sharded_data(count, data) ==
    LET splicenum == PyDiv(Len(data), count)
        rem == PyMod(Len(data), count)
        n == IF count > 0 THEN count ELSE 0
        result == [z \in 1..n |-> Slice(data, splicenum * (z - 1), splicenum * z)]
    IN IF rem > 0
       THEN [z \in 1..n |-> IF z = n THEN result[z] \o Tail_(data, rem) ELSE result[z]]
       ELSE result

\* ---------------------------------------------------- load_data_from_shards
\* every data/{db}.txt of the mapping exists (open() raises otherwise)
AllPrimaries(m, fs) == \A k \in KeysOf(m) : Exists(fs, Primary(k))

\* ''.join of the shard files, in the order of self.mapping.keys()
RECURSIVE LoadFrom(_, _, _)
LoadFrom(m, fs, i) ==
    IF i > Len(m) THEN <<>> ELSE fs[Primary(m[i].key)] \o LoadFrom(m, fs, i + 1)

load_data_from_shards(m, fs) == LoadFrom(m, fs, 1)

\* --------------------------------------------------------- sync_replication
\* The files of the working directory that bear the name of a file of data/.
\* os.path.isfile(name) is given the bare name that os.listdir('data/')
\* returns, so it looks in the working directory, which holds the script, the
\* corpus and mapping.json and no {key}.txt or {key}-{level}.txt.
CwdFiles == {}

\* len([name for name in os.listdir('data/') if os.path.isfile(name)])
max_files_of(fs) == Cardinality({name \in DOMAIN fs : name \in CwdFiles})

\* end - start of the mapping entry
RangeLen(m, key) == Entry(m, key).end - Entry(m, key).start

\* range_matches without the comparison: any replica is taken
range_matches_always(m, key, a) == TRUE

\* (self.mapping[f'{key}']['end']-self.mapping[f'{key}']['start']) == len(a)
range_matches(m, key, a) == RangeLen(m, key) = Len(a)

\* st is [files, rc, runs]: data/, self.rep_count and the number of times the
\* body of sync_replication has been entered.
\* The loop of a shard whose primary exists: a is the primary's content.
RECURSIVE SyncLoop(_, _, _, _, _)
SyncLoop(key, a, i, max_files, st) ==
    IF i > max_files THEN st
    ELSE LET name == Replica(key, st.rc)
             fs == IF Exists(st.files, name) /\ st.files[name] # a
                   THEN FileWrite(st.files, name, a)
                   ELSE st.files
         IN SyncLoop(key, a, i + 1, max_files,
                     [st EXCEPT !.files = fs, !.rc = st.rc + 1])

RECURSIVE sync_replication_run(_, _)
RECURSIVE RestoreLoop(_, _, _, _, _)
\* RestoreLoop running the pass twice after a restore
RestoreLoop_rerun_twice(m, key, i, max_files, st) ==
    IF i > max_files THEN st
    ELSE LET name == Replica(key, st.rc)
             st1 == IF Exists(st.files, name)
                    THEN LET a == st.files[name]
                         IN IF range_matches(m, key, a)
                            THEN sync_replication_run(
                                     m, sync_replication_run(
                                            m, [st EXCEPT !.files =
                                                   FileWrite(st.files, Primary(key), a)]))
                            ELSE st
                    ELSE st
         IN RestoreLoop(m, key, i + 1, max_files, [st1 EXCEPT !.rc = st1.rc + 1])

\* The loop of a shard whose primary is missing: a replica as long as the
\* mapping's range becomes the primary, and the whole pass runs again.
RestoreLoop(m, key, i, max_files, st) ==
    IF i > max_files THEN st
    ELSE LET name == Replica(key, st.rc)
             st1 == IF Exists(st.files, name)
                    THEN LET a == st.files[name]
                         IN IF range_matches(m, key, a)
                            THEN sync_replication_run(
                                     m, [st EXCEPT !.files =
                                            FileWrite(st.files, Primary(key), a)])
                            ELSE st
                    ELSE st
         IN RestoreLoop(m, key, i + 1, max_files, [st1 EXCEPT !.rc = st1.rc + 1])

\* for key in keys
RECURSIVE SyncKeys(_, _, _, _, _)
SyncKeys(m, keys, n, max_files, st) ==
    IF n > Len(keys) THEN st
    ELSE LET key == keys[n]
             st0 == [st EXCEPT !.rc = 1]
             st1 == IF Exists(st0.files, Primary(key))
                    THEN SyncLoop(key, st0.files[Primary(key)], 0, max_files, st0)
                    ELSE RestoreLoop(m, key, 0, max_files, st0)
         IN SyncKeys(m, keys, n + 1, max_files, st1)

\* The body of sync_replication on the mapping m just loaded, with data/
\* present: entered by a call and again after every restore
sync_replication_run(m, st) ==
    SyncKeys(m, SortedKeys(m), 1, max_files_of(st.files),
             [st EXCEPT !.runs = st.runs + 1])

\* self.sync_replication() called by a handler
sync_replication_pass(m, fs, rc) ==
    sync_replication_run(m, [files |-> fs, rc |-> rc, runs |-> 0])

\* ------------------------------------------------------------------- state
\* count and data are the arguments of build_shards; key is the shard whose
\* primary was deleted, data its content and first whether it is the first
\* deletion of the run; passes is the number of times the call entered the
\* body of sync_replication.
NoArgs == [count |-> 0, data |-> <<>>, key |-> 0 - 1, first |-> FALSE, passes |-> 0]

Passes(st) == [NoArgs EXCEPT !.passes = st.runs]

Called(op, outcome, args) ==
    [op |-> op, outcome |-> outcome, count |-> args.count, data |-> args.data,
     key |-> args.key, first |-> args.first, passes |-> args.passes]

Init ==
    /\ mapping = <<>>
    /\ mapfile = <<>>
    /\ files = <<>>
    /\ dataDir = FALSE
    /\ last_char_position = 0
    /\ rep_count = 1
    /\ last = Called("init", "ok", NoArgs)
    /\ deleted = FALSE

\* ------------------------------------------------------------ build_shards
\* already_sharded without the test: build_shards never refuses
already_sharded_never(m) == FALSE

\* self.mapping != {}
already_sharded(m) == m # <<>>

build_shards(count, data) ==
    /\ UNCHANGED <<rep_count, deleted>>
    /\ IF already_sharded(mapping)
       THEN \* "Cannot build shard setup": returned before the arguments are
            \* looked at, so they are not recorded
            /\ last' = Called("build_shards", "AlreadySharded", NoArgs)
            /\ UNCHANGED <<mapping, mapfile, files, dataDir, last_char_position>>
       ELSE IF count = 0
       THEN \* divmod(len(data), 0)
            /\ last' = Called("build_shards", "ZeroDivisionError",
                              [NoArgs EXCEPT !.count = count, !.data = data])
            /\ UNCHANGED <<mapping, mapfile, files, dataDir, last_char_position>>
       ELSE LET spliced_data == _generate_sharded_data(count, data)
                h == write_shards([files |-> files, mapping |-> mapping,
                                  lcp |-> last_char_position], spliced_data, 0)
            IN /\ files' = h.files
               /\ mapping' = h.mapping
               /\ last_char_position' = h.lcp
               /\ dataDir' = (dataDir \/ Len(spliced_data) > 0)
               /\ mapfile' = h.mapping
               /\ last' = Called("build_shards", "ok",
                                 [NoArgs EXCEPT !.count = count, !.data = data])

\* --------------------------------------------------------------- add_shard
\* add_shard_num with max(keys) + 1, the zero-based ids not compensated
add_shard_num_off_by_one(keys) == Max(keys) + 1

\* max(keys) + 2
add_shard_num(keys) == Max(keys) + 2

add_shard ==
    /\ UNCHANGED <<deleted, dataDir>>
    /\ IF ~AllPrimaries(mapfile, files)
       THEN \* open() in load_data_from_shards
            /\ last' = Called("add_shard", "FileNotFoundError", NoArgs)
            /\ mapping' = mapfile
            /\ UNCHANGED <<mapfile, files, last_char_position, rep_count>>
       ELSE IF mapfile = <<>>
       THEN \* max([])
            /\ last' = Called("add_shard", "ValueError", NoArgs)
            /\ mapping' = mapfile
            /\ UNCHANGED <<mapfile, files, last_char_position, rep_count>>
       ELSE LET data == load_data_from_shards(mapfile, files)
                new_shard_num == add_shard_num(KeysOf(mapfile))
                spliced_data == _generate_sharded_data(new_shard_num, data)
                h == write_shards([files |-> files, mapping |-> mapfile,
                                   lcp |-> last_char_position], spliced_data, 0)
                st == sync_replication_pass(h.mapping, h.files, rep_count)
            IN /\ new_shard_num <= MaxShards  \* the bound of the model
               /\ mapping' = h.mapping
               /\ mapfile' = h.mapping
               /\ last_char_position' = h.lcp
               /\ files' = st.files
               /\ rep_count' = st.rc
               /\ last' = Called("add_shard", "ok", Passes(st))

\* ------------------------------------------------------------ remove_shard
\* remove_shard_num with max(keys) + 1: as many shards as there were
remove_shard_num_keep(keys) == Max(keys) + 1

\* max(keys)
remove_shard_num(keys) == Max(keys)

\* for num, key in enumerate(keys): the loop stops at a missing primary
\* (return FileNotFoundError) and removes the others
RECURSIVE RemovePrimaries(_, _, _)
RemovePrimaries(keys, n, fs) ==
    IF n > Len(keys) THEN [files |-> fs, done |-> TRUE]
    ELSE IF ~Exists(fs, Primary(keys[n])) THEN [files |-> fs, done |-> FALSE]
    ELSE RemovePrimaries(keys, n + 1, FileRemove(fs, Primary(keys[n])))

\* remove_shard from mapping.json m, data/ fs, self.last_char_position lcp and
\* self.rep_count rc, when every primary exists and max(keys) >= 1
remove_shard_result(m, fs, lcp, rc) ==
    LET data == load_data_from_shards(m, fs)
        rm == RemovePrimaries(SortedKeys(m), 1, fs)
        new_shard_num == remove_shard_num(KeysOf(m))
        spliced_data == _generate_sharded_data(new_shard_num, data)
        \* os.remove('mapping.json'); self.mapping = self.load_map()
        h == write_shards([files |-> rm.files, mapping |-> <<>>, lcp |-> lcp],
                          spliced_data, 0)
        st == sync_replication_pass(h.mapping, h.files, rc)
    IN [mapping |-> h.mapping, lcp |-> h.lcp, files |-> st.files, rc |-> st.rc,
        runs |-> st.runs]

remove_shard ==
    /\ UNCHANGED <<deleted, dataDir>>
    /\ IF ~AllPrimaries(mapfile, files)
       THEN \* open() in load_data_from_shards
            /\ last' = Called("remove_shard", "FileNotFoundError", NoArgs)
            /\ mapping' = mapfile
            /\ UNCHANGED <<mapfile, files, last_char_position, rep_count>>
       ELSE LET keys == SortedKeys(mapfile)
                rm == RemovePrimaries(keys, 1, files)
            IN IF ~rm.done
               THEN /\ last' = Called("remove_shard", "returned FileNotFoundError", NoArgs)
                    /\ mapping' = mapfile
                    /\ files' = rm.files
                    /\ UNCHANGED <<mapfile, last_char_position, rep_count>>
               ELSE IF keys = <<>>
               THEN \* max([])
                    /\ last' = Called("remove_shard", "ValueError", NoArgs)
                    /\ mapping' = mapfile
                    /\ files' = rm.files
                    /\ UNCHANGED <<mapfile, last_char_position, rep_count>>
               ELSE IF remove_shard_num(KeysOf(mapfile)) = 0
               THEN \* divmod(len(data), 0), the primaries already removed
                    /\ last' = Called("remove_shard", "ZeroDivisionError", NoArgs)
                    /\ mapping' = mapfile
                    /\ files' = rm.files
                    /\ UNCHANGED <<mapfile, last_char_position, rep_count>>
               ELSE LET r == remove_shard_result(mapfile, files, last_char_position,
                                                 rep_count)
                    IN /\ mapping' = r.mapping
                       /\ mapfile' = r.mapping
                       /\ last_char_position' = r.lcp
                       /\ files' = r.files
                       /\ rep_count' = r.rc
                       /\ last' = Called("remove_shard", "ok", Passes(r))

\* --------------------------------------------------------- add_replication
\* while os.path.exists(f'data/{keys[0]}-{self.rep_count}.txt'): self.rep_count += 1
RECURSIVE NextFree(_, _, _)
NextFree(fs, key, rc) ==
    IF Exists(fs, Replica(key, rc)) THEN NextFree(fs, key, rc + 1) ELSE rc

\* for num, key in enumerate(keys): copy the primary to level rc; open() of a
\* missing primary raises and leaves the copies made so far
RECURSIVE CopyPrimaries(_, _, _, _)
CopyPrimaries(keys, n, fs, rc) ==
    IF n > Len(keys) THEN [files |-> fs, done |-> TRUE]
    ELSE IF ~Exists(fs, Primary(keys[n])) THEN [files |-> fs, done |-> FALSE]
    ELSE CopyPrimaries(keys, n + 1,
                       FileWrite(fs, Replica(keys[n], rc), fs[Primary(keys[n])]), rc)

add_replication ==
    /\ mapping' = mapfile
    /\ UNCHANGED <<mapfile, dataDir, last_char_position, deleted>>
    /\ LET keys == SortedKeys(mapfile)
       IN IF keys = <<>>
          THEN \* keys[0]
               /\ last' = Called("add_replication", "IndexError", NoArgs)
               /\ UNCHANGED <<files, rep_count>>
          ELSE LET rc == NextFree(files, keys[1], rep_count)
                   cp == CopyPrimaries(keys, 1, files, rc)
               IN /\ rc <= MaxLevel  \* the bound of the model
                  /\ files' = cp.files
                  /\ rep_count' = rc
                  \* "self.sync_replication" without a call: no sync pass runs
                  /\ last' = Called("add_replication",
                                    IF cp.done THEN "ok" ELSE "FileNotFoundError",
                                    NoArgs)

\* ------------------------------------------------------ remove_replication
\* for num, key in enumerate(keys): os.remove of a missing replica raises and
\* leaves the others of the later keys in place
RECURSIVE RemoveReplicas(_, _, _, _)
RemoveReplicas(keys, n, fs, level) ==
    IF n > Len(keys) THEN [files |-> fs, done |-> TRUE]
    ELSE IF ~Exists(fs, Replica(keys[n], level)) THEN [files |-> fs, done |-> FALSE]
    ELSE RemoveReplicas(keys, n + 1, FileRemove(fs, Replica(keys[n], level)), level)

\* has_replication without the test: the removal is always entered
has_replication_always(fs, keys) == TRUE

\* os.path.exists(f'data/{keys[0]}-{self.rep_count}.txt'), self.rep_count = 1
has_replication(fs, keys) == Exists(fs, Replica(keys[1], 1))

remove_replication ==
    /\ mapping' = mapfile
    /\ UNCHANGED <<mapfile, dataDir, last_char_position, deleted>>
    /\ LET keys == SortedKeys(mapfile)
       IN IF keys = <<>>
          THEN \* keys[0], after self.rep_count = 1
               /\ last' = Called("remove_replication", "IndexError", NoArgs)
               /\ rep_count' = 1
               /\ UNCHANGED files
          ELSE IF ~has_replication(files, keys)
          THEN \* 'No more replications'
               /\ last' = Called("remove_replication", "FileNotFoundError", NoArgs)
               /\ rep_count' = 1
               /\ UNCHANGED files
          ELSE LET rc == NextFree(files, keys[1], 1)
                   rm == RemoveReplicas(keys, 1, files, rc - 1)
                   st == sync_replication_pass(mapfile, rm.files, rc)
               IN IF rm.done
                  THEN /\ files' = st.files
                       /\ rep_count' = st.rc
                       /\ last' = Called("remove_replication", "ok", Passes(st))
                  ELSE \* os.remove of a replica that is not there
                       /\ files' = rm.files
                       /\ rep_count' = rc
                       /\ last' = Called("remove_replication", "FileNotFoundError",
                                         NoArgs)

\* -------------------------------------------------------- sync_replication
sync_replication ==
    /\ mapping' = mapfile
    /\ UNCHANGED <<mapfile, dataDir, last_char_position, deleted>>
    /\ IF ~dataDir
       THEN \* os.listdir('data/')
            /\ last' = Called("sync_replication", "FileNotFoundError", NoArgs)
            /\ UNCHANGED <<files, rep_count>>
       ELSE LET st == sync_replication_pass(mapfile, files, rep_count)
            IN /\ files' = st.files
               /\ rep_count' = st.rc
               /\ last' = Called("sync_replication", "ok", Passes(st))

\* ------------------------------------------------------------- environment
\* A primary file is deleted from data/ by something other than the handler,
\* one at a time: no primary of the mapping is missing when it happens.
DeletePrimary(key) ==
    /\ AllPrimaries(mapfile, files)
    /\ Exists(files, Primary(key))
    /\ files' = FileRemove(files, Primary(key))
    /\ deleted' = TRUE
    /\ last' = Called("delete_primary", "ok",
                      [NoArgs EXCEPT !.data = files[Primary(key)], !.key = key,
                                     !.first = ~deleted])
    /\ UNCHANGED <<mapping, mapfile, dataDir, last_char_position, rep_count>>

\* A corrupted file holds the character 0, which no corpus holds
Corrupted(fs, name) == \E i \in 1..Len(fs[name]) : fs[name][i] = 0

\* The files of data/ that are damaged: the missing primaries of the mapping
\* and the corrupted replicas
Damaged(m, fs) ==
    {Primary(k) : k \in {j \in KeysOf(m) : ~Exists(fs, Primary(j))}}
    \cup {x \in DOMAIN fs : x[2] >= 1 /\ Corrupted(fs, x)}

\* A primary file is lost, whether or not others are missing already.
LosePrimary(key) ==
    /\ key \in KeysOf(mapfile)
    /\ Exists(files, Primary(key))
    /\ Cardinality(Damaged(mapfile, files)) < MaxFaults
    /\ files' = FileRemove(files, Primary(key))
    /\ deleted' = TRUE
    /\ last' = Called("lose_primary", "ok", NoArgs)
    /\ UNCHANGED <<mapping, mapfile, dataDir, last_char_position, rep_count>>

\* A replica file is corrupted out-of-band: it gets one character more, so
\* that it differs from its primary in content and in length.
CorruptReplica(key, level) ==
    /\ Exists(files, Replica(key, level))
    /\ ~Corrupted(files, Replica(key, level))
    /\ Cardinality(Damaged(mapfile, files)) < MaxFaults
    /\ files' = FileWrite(files, Replica(key, level),
                          Append(files[Replica(key, level)], 0))
    /\ last' = Called("corrupt_replica", "ok", NoArgs)
    /\ UNCHANGED <<mapping, mapfile, dataDir, last_char_position, rep_count,
                   deleted>>

\* The calls of the handler.
NextCalls ==
    \/ \E count \in Counts, data \in Corpora : build_shards(count, data)
    \/ add_shard
    \/ remove_shard
    \/ add_replication
    \/ remove_replication
    \/ sync_replication

\* The calls of the handler and the loss of primary files.
Next ==
    \/ NextCalls
    \/ \E key \in 0..(MaxShards - 1) : DeletePrimary(key)

Spec == Init /\ [][Next]_vars

\* The handler alone: nothing but its own calls touches data/.
SpecCalls == Init /\ [][NextCalls]_vars

\* The calls of the handler, the loss of primary files and the corruption of
\* replica files, at most MaxFaults files damaged at one time.
NextFaults ==
    \/ \E count \in Counts, data \in Corpora : build_shards(count, data)
    \/ add_replication
    \/ sync_replication
    \/ \E key \in 0..(MaxShards - 1) : LosePrimary(key)
    \/ \E key \in 0..(MaxShards - 1), level \in 1..MaxLevel : CorruptReplica(key, level)

SpecFaults == Init /\ [][NextFaults]_vars

\* build_shards alone, on an empty mapping, given every positive count up to
\* MaxSplitCount and every corpus up to MaxSplitLen characters.
NextBuild ==
    \E count \in 1..MaxSplitCount, n \in 0..MaxSplitLen : build_shards(count, Corpus(n))

SpecBuild == Init /\ [][NextBuild]_vars

\* ------------------------------------------------------------ vocabulary
\* The primaries of shards 0..n-1 joined in ascending order of id
RECURSIVE JoinShards(_, _, _)
JoinShards(fs, i, n) ==
    IF i >= n THEN <<>> ELSE fs[Primary(i)] \o JoinShards(fs, i + 1, n)

\* The primaries of the mapping's shards joined in ascending order of id
RECURSIVE JoinKeys(_, _, _)
JoinKeys(fs, keys, i) ==
    IF i > Len(keys) THEN <<>> ELSE fs[Primary(keys[i])] \o JoinKeys(fs, keys, i + 1)

Reconstructed(m, fs) == JoinKeys(fs, SortedKeys(m), 1)

\* The levels at which shard key has a replica
LevelsOf(fs, key) == {n[2] : n \in {x \in DOMAIN fs : x[1] = key /\ x[2] >= 1}}

\* The replica files of the mapping's shards
ReplicasOf(m, fs) == {x \in DOMAIN fs : x[1] \in KeysOf(m) /\ x[2] >= 1}

\* The primary files of data/
Primaries(fs) == {x \in DOMAIN fs : x[2] = 0}

\* The shards of the mapping whose primary is missing
MissingPrimaries(m, fs) == {k \in KeysOf(m) : ~Exists(fs, Primary(k))}

\* The replicas of the shards without a primary whose length is not that of
\* the shard's range
Mismatching(m, fs) ==
    {x \in ReplicasOf(m, fs) :
        ~Exists(fs, Primary(x[1])) /\ Len(fs[x]) # RangeLen(m, x[1])}

Did(op) == last.op = op /\ last.outcome = "ok"

\* ---------------------------------------------------------------- claims

\* C1: build_shards(N, corpus) with N >= 1 and len(corpus) >= N, called on an
\* empty mapping, succeeds, and the primaries of shards 0..N-1 joined in
\* ascending order of id are the corpus.
C1_BuildReproducesCorpus ==
    (/\ last.op = "build_shards"
     /\ last.outcome # "AlreadySharded"
     /\ last.count >= 1
     /\ Len(last.data) >= last.count)
    => /\ last.outcome = "ok"
       /\ \A i \in 0..(last.count - 1) : Exists(files, Primary(i))
       /\ JoinShards(files, 0, last.count) = last.data

\* C1 witness: a build of two shards from a corpus of three characters, the
\* odd character going to the last shard.
C1_Witness ==
    /\ Did("build_shards")
    /\ last.count = 2
    /\ last.data = Corpus(3)
    /\ files[Primary(1)] = <<2, 3>>

\* C2: add_shard on a mapping of N >= 1 shards whose primaries are all there
\* succeeds and leaves a mapping of exactly the N+1 shards 0..N whose
\* primaries, joined in ascending order of id, are what they were before.
C2_AddShardGrowsByOne ==
    [][(/\ last'.op = "add_shard"
        /\ Len(mapfile) >= 1
        /\ AllPrimaries(mapfile, files))
       => /\ last'.outcome = "ok"
          /\ Len(mapfile') = Len(mapfile) + 1
          /\ KeysOf(mapfile') = 0..Len(mapfile)
          /\ AllPrimaries(mapfile', files')
          /\ Reconstructed(mapfile', files') = Reconstructed(mapfile, files)]_vars

\* C2 witness: add_shard has made two shards of a corpus of three characters.
C2_Witness ==
    /\ Did("add_shard")
    /\ Len(mapfile) = 2
    /\ AllPrimaries(mapfile, files)
    /\ Reconstructed(mapfile, files) = Corpus(3)

\* C3: remove_shard on a mapping of N >= 1 shards whose primaries are all
\* there leaves exactly N-1 shards whose primaries, joined in ascending order
\* of id, are what they were before.
C3_RemoveShardShrinksByOne ==
    [][(/\ last'.op = "remove_shard"
        /\ Len(mapfile) >= 1
        /\ AllPrimaries(mapfile, files))
       => /\ Len(mapfile') = Len(mapfile) - 1
          /\ AllPrimaries(mapfile', files')
          /\ Reconstructed(mapfile', files') = Reconstructed(mapfile, files)]_vars

\* C4: after a completed sync_replication, whatever calls came before it,
\* every replica of a shard of the mapping whose primary exists, at whatever
\* level, equals that primary.
C4_SyncEqualisesReplicas ==
    Did("sync_replication")
    => \A x \in ReplicasOf(mapfile, files) :
           Exists(files, Primary(x[1])) => files[x] = files[Primary(x[1])]

\* C5: every shard has a replica equal to its primary, the primary of one
\* shard is deleted (the first loss of the run), and sync_replication runs:
\* the primary is there again with the content it had.
C5_SyncRestoresAnyPrimary ==
    [][(/\ last.op = "delete_primary"
        /\ last.first
        /\ last'.op = "sync_replication"
        /\ \A k \in KeysOf(mapfile) :
               \E x \in ReplicasOf(mapfile, files) :
                   /\ x[1] = k
                   /\ files[x] = IF k = last.key THEN last.data
                                 ELSE files[Primary(k)])
       => /\ Exists(files', Primary(last.key))
          /\ files'[Primary(last.key)] = last.data]_vars

\* C6: a shard of the mapping has no primary and exactly one replica as long
\* as its range (end - start), and sync_replication runs: the primary is
\* that replica's content and the shard's mapping entry is unchanged.
C6_SyncRestoresFromTheOneMatch ==
    [][\A k \in KeysOf(mapfile) :
         \A x \in ReplicasOf(mapfile, files) :
           (/\ last'.op = "sync_replication"
            /\ ~Exists(files, Primary(k))
            /\ x[1] = k
            /\ {y \in ReplicasOf(mapfile, files) :
                   y[1] = k /\ Len(files[y]) = RangeLen(mapfile, k)} = {x})
           => /\ Exists(files', Primary(k))
              /\ files'[Primary(k)] = files[x]
              /\ k \in KeysOf(mapfile')
              /\ Entry(mapfile', k) = Entry(mapfile, k)]_vars

\* C7: after a build or a re-sharding the ranges of the mapping partition the
\* corpus: shard 0 starts at 0, every next shard starts where the one before
\* ends, the last ends at the length of the corpus, and every range is as
\* long as the shard's content.
C7_RangesPartitionCorpus ==
    (Did("build_shards") \/ Did("add_shard") \/ Did("remove_shard"))
    => LET n == Len(mapfile)
       IN /\ KeysOf(mapfile) = 0..(n - 1)
          /\ n >= 1 => Entry(mapfile, 0).start = 0
          /\ \A k \in 0..(n - 2) :
                 Entry(mapfile, k + 1).start = Entry(mapfile, k).end
          /\ n >= 1 => Entry(mapfile, n - 1).end = Len(Reconstructed(mapfile, files))
          /\ \A k \in 0..(n - 1) :
                 RangeLen(mapfile, k) = Len(files[Primary(k)])

\* C8: whatever calls were made, the levels at which shard 0 has a replica
\* are 1..k for some k >= 0.
C8_LevelsContiguous ==
    \A level \in LevelsOf(files, 0) : level = 1 \/ (level - 1) \in LevelsOf(files, 0)

\* C9: whatever calls were made, every shard of the mapping has replicas at
\* exactly the levels at which shard 0 has them.
C9_LevelsUniform ==
    \A k \in KeysOf(mapfile) : LevelsOf(files, k) = LevelsOf(files, 0)

\* C10: when some shard of the mapping has a replica, remove_replication
\* succeeds, removes the replica of the highest existing level from every
\* shard of the mapping and leaves the primaries and the replicas of the
\* lower levels in place.
C10_RemoveReplicationRemovesTop ==
    [][(/\ last'.op = "remove_replication"
        /\ ReplicasOf(mapfile, files) # {})
       => LET top == Max({x[2] : x \in ReplicasOf(mapfile, files)})
          IN /\ last'.outcome = "ok"
             /\ \A k \in KeysOf(mapfile) : ~Exists(files', Replica(k, top))
             /\ \A x \in DOMAIN files :
                    x[2] < top => Exists(files', x)
             /\ \A k \in KeysOf(mapfile) :
                    Exists(files, Primary(k))
                    => Exists(files', Primary(k))
                       /\ files'[Primary(k)] = files[Primary(k)]]_vars

\* C11: remove_replication on a mapping none of whose shards has a replica at
\* any level fails with an error (FileNotFoundError after 'No more
\* replications' when the mapping has a shard) and leaves mapping.json, every
\* primary and the empty set of replicas as they were.
C11_NothingToRemoveFails ==
    [][(/\ last'.op = "remove_replication"
        /\ ReplicasOf(mapfile, files) = {})
       => /\ last'.outcome \in {"FileNotFoundError", "IndexError"}
          /\ mapfile # <<>> => last'.outcome = "FileNotFoundError"
          /\ mapfile' = mapfile
          /\ files' = files
          /\ ReplicasOf(mapfile', files') = {}]_vars

\* C11 witness: remove_replication has failed on two shards that have their
\* primaries and no replica.
C11_Witness ==
    /\ last.op = "remove_replication"
    /\ last.outcome = "FileNotFoundError"
    /\ Len(mapfile) = 2
    /\ AllPrimaries(mapfile, files)
    /\ ReplicasOf(mapfile, files) = {}

\* C12: build_shards called while the mapping is not empty ends with the
\* refusal "sharding already exists", whatever count and corpus it is given,
\* and changes neither the mapping (in memory or in mapping.json) nor any
\* primary or replica.
C12_BuildRefusedWhenSharded ==
    [][(/\ last'.op = "build_shards"
        /\ mapfile # <<>>)
       => /\ last'.outcome = "AlreadySharded"
          /\ mapping' = mapping
          /\ mapfile' = mapfile
          /\ files' = files]_vars

\* C12 witness: build_shards has been refused on a mapping of two shards that
\* have replicas.
C12_Witness ==
    /\ last.op = "build_shards"
    /\ last.outcome = "AlreadySharded"
    /\ Len(mapfile) = 2
    /\ ReplicasOf(mapfile, files) # {}

\* C13: build_shards(count, corpus) called on an empty mapping with a count
\* that is zero, negative or greater than the length of the corpus fails with
\* an error, and no shard file and no mapping has been written when it does.
C13_InvalidCountRejected ==
    [][(/\ last'.op = "build_shards"
        /\ mapping = <<>>
        /\ (last'.count <= 0 \/ last'.count > Len(last'.data)))
       => /\ last'.outcome # "ok"
          /\ files' = files
          /\ mapfile' = mapfile
          /\ dataDir' = dataDir]_vars

\* C14: build_shards with a positive count writes exactly count pieces; the
\* pieces 0..count-2 are floor(len / count) characters long and the last is
\* floor(len / count) + (len mod count) characters long (11 characters in 5
\* shards: 2, 2, 2, 2, 3).
C14_SplitSizes ==
    (Did("build_shards") /\ last.count >= 1)
    => LET n == Len(last.data)
           count == last.count
       IN /\ Len(_generate_sharded_data(count, last.data)) = count
          /\ {x \in DOMAIN files : x[2] = 0} = {Primary(i) : i \in 0..(count - 1)}
          /\ \A i \in 0..(count - 2) : Len(files[Primary(i)]) = n \div count
          /\ Len(files[Primary(count - 1)]) = (n \div count) + (n % count)

\* C14 witness: 11 characters built into 5 shards of 2, 2, 2, 2 and 3.
C14_Witness ==
    /\ Did("build_shards")
    /\ last.count = 5
    /\ Len(last.data) = 11
    /\ \A i \in 0..3 : Len(files[Primary(i)]) = 2
    /\ files[Primary(4)] = <<9, 10, 11>>

\* C15: every call of add_shard, remove_shard, add_replication or
\* remove_replication that returns successfully has run the pass of
\* sync_replication before returning.
C15_ChangesEndWithSync ==
    (\/ Did("add_shard")
     \/ Did("remove_shard")
     \/ Did("add_replication")
     \/ Did("remove_replication"))
    => last.passes >= 1

\* C16: in every state reached by calls of the handler alone, whether they
\* succeeded or failed, the keys of mapping.json are exactly the ids of the
\* shards whose primary file is present.
C16_MappingKeysArePrimaries ==
    KeysOf(mapfile) = {x[1] : x \in {y \in DOMAIN files : y[2] = 0}}

\* C19: whatever calls of the handler were made, every replica file present
\* belongs to a shard whose id is a key of mapping.json: remove_shard leaves
\* no replica of the shard it removed.
C19_NoOrphanReplica ==
    \A x \in DOMAIN files : x[2] >= 1 => x[1] \in KeysOf(mapfile)

\* C20: add_shard on a mapping of N >= 1 shards whose primaries are all there,
\* followed at once by remove_shard, is a round trip: both calls succeed, and
\* mapping.json (keys and ranges) and the content of every primary are what
\* they were before the two calls.
C20_AddThenRemoveRoundTrip ==
    [][(/\ last'.op = "add_shard"
        /\ Len(mapfile) >= 1
        /\ AllPrimaries(mapfile, files))
       => /\ last'.outcome = "ok"
          \* remove_shard called next takes its successful branch
          /\ AllPrimaries(mapfile', files')
          /\ remove_shard_num(KeysOf(mapfile')) >= 1
          /\ LET r == remove_shard_result(mapfile', files', last_char_position',
                                         rep_count')
             IN /\ r.mapping = mapfile
                /\ Primaries(r.files) = Primaries(files)
                /\ \A x \in Primaries(files) : r.files[x] = files[x]]_vars

\* C20 witness: add_shard has made two shards of a one-shard corpus of three
\* characters, and remove_shard called next makes one shard of them again.
C20_Witness ==
    /\ Did("add_shard")
    /\ Len(mapfile) = 2
    /\ files[Primary(0)] = <<1>>
    /\ files[Primary(1)] = <<2, 3>>
    /\ LET r == remove_shard_result(mapfile, files, last_char_position, rep_count)
       IN /\ KeysOf(r.mapping) = {0}
          /\ r.files[Primary(0)] = Corpus(3)

\* C17: sync_replication called with data/ present returns, whatever
\* primaries are missing and whatever replicas are there, of matching or
\* mismatching length; the pass is run again after a restore at most once for
\* each primary that was missing.
C17_SyncTerminates ==
    [][(last'.op = "sync_replication" /\ dataDir)
       => /\ last'.outcome = "ok"
          /\ last'.passes >= 1
          /\ last'.passes - 1 <= Cardinality(MissingPrimaries(mapfile, files))
          /\ last'.passes - 1 =
                 Cardinality(MissingPrimaries(mapfile, files)
                             \ MissingPrimaries(mapfile', files'))]_vars

\* C17 witness: sync_replication has run three passes, restoring the two
\* missing primaries of a mapping of two shards.
C17_Witness ==
    /\ Did("sync_replication")
    /\ last.passes = 3
    /\ Len(mapfile) = 2
    /\ AllPrimaries(mapfile, files)

\* C18: in sync_replication a replica of a shard without a primary whose
\* length is not end - start of the mapping is never written back as the
\* primary, and the pass is not aborted by it: it returns, and does to every
\* other file what it does when that replica is not there, overwriting the
\* replicas that differ from their primaries and restoring the other missing
\* primaries.
C18_MismatchSkippedPassGoesOn ==
    [][(/\ last'.op = "sync_replication"
        /\ Mismatching(mapfile, files) # {})
       => LET bad == Mismatching(mapfile, files)
              rest == [x \in (DOMAIN files) \ bad |-> files[x]]
              other == sync_replication_pass(mapfile, rest, rep_count).files
          IN /\ last'.outcome = "ok"
             /\ \A k \in MissingPrimaries(mapfile, files) :
                    Exists(files', Primary(k))
                    => /\ Len(files'[Primary(k)]) = RangeLen(mapfile, k)
                       /\ \A x \in bad : x[1] = k => files'[Primary(k)] # files[x]
             /\ DOMAIN files' = (DOMAIN other) \cup bad
             /\ \A x \in bad : files'[x] = files[x]
             /\ \A x \in DOMAIN other : files'[x] = other[x]]_vars

\* C18 witness: sync_replication has met the mismatching replica of shard 0,
\* whose primary is still missing, and has gone on to restore the primary of
\* shard 1 in a second pass.
C18_Witness ==
    /\ Did("sync_replication")
    /\ ~Exists(files, Primary(0))
    /\ Replica(0, 1) \in Mismatching(mapfile, files)
    /\ Exists(files, Primary(1))
    /\ last.passes = 2

====
